---- MODULE Spec2Model ----
(***************************************************************************)
(* The map-preview handler of server/main-api/src/maps/mod.rs:             *)
(* maps_handler and the functions it calls, as a state machine over        *)
(* request slots, the metadata store's tables and the tile store.          *)
(***************************************************************************)
EXTENDS Naturals, Sequences, FiniteSets

(***************************************************************************)
(* Bounds of the model.                                                    *)
(***************************************************************************)
\* longest path identifier a request carries
MaxPathLen == 2
\* most rows the aliases table holds
MaxAliasRows == 2
\* names drawn by draw_bottom: how far around the threshold their prefix runs
NameSlack == 3
\* names drawn by draw_bottom: longest run of characters after the marked one
MaxSuffix == 4

(***************************************************************************)
(* Characters of a path identifier: two letters, a space (whitespace, not  *)
(* control), a tab (whitespace and control) and a NUL (control, not        *)
(* whitespace).                                                            *)
(***************************************************************************)
Chars == {"a", "b", "sp", "tab", "nul"}

IsWhitespace(c) == c \in {"sp", "tab"}

IsControl(c) == c \in {"tab", "nul"}

Paths == UNION {[1..n -> Chars] : n \in 1..MaxPathLen}

\* maps_handler, lines 195-197: only whitespace is removed
KeepsOnlyWhitespaceOut(c) == ~IsWhitespace(c)

\* maps_handler, lines 195-197: the characters replace() leaves in place
Kept(c) == ~(IsWhitespace(c) \/ IsControl(c))

Normalise(path) == SelectSeq(path, Kept)

(***************************************************************************)
(* Query arguments.                                                        *)
(***************************************************************************)
LangTokens == {"de", "en"}

FormatTokens == {"open_graph", "square"}

ParseFormat(tok) == IF tok = "square" THEN "Square" ELSE "OpenGraph"

ParseLang(tok) == IF tok = "en" THEN "En" ELSE "De"

\* PreviewFormat::serialise with the two tokens exchanged
FormatSerialiseSwapped(format) == IF format = "OpenGraph" THEN "square" ELSE "open_graph"

FormatSerialise(format) == IF format = "OpenGraph" THEN "open_graph" ELSE "square"

LangSerialise(lang) == IF lang = "En" THEN "en" ELSE "de"

ShouldUseEnglish(lang) == lang = "En"

(***************************************************************************)
(* The metadata store: the aliases table and the two localised tables.     *)
(***************************************************************************)
Keys == {<<"a">>, <<"b">>}

AliasRows == [alias : Keys, key : Keys]

TileKeys == {"t1", "t2"}

\* the tiles that cover the canvas around a location
TileGrid(coord) == IF coord = "c1" THEN {"t1"} ELSE {"t1", "t2"}

LocationRow(key, table) ==
    [key |-> key,
     name |-> IF key = <<"a">> THEN <<"n", "n">> ELSE <<"n", "m", "w">>,
     type_common_name |-> IF table = "en" THEN "Room" ELSE "Raum",
     coord |-> IF key = <<"a">> THEN "c1" ELSE "c2"]

NoLocation == [key |-> <<>>, name |-> <<>>, type_common_name |-> "", coord |-> ""]

NoRow == [alias |-> <<>>, key |-> <<>>]

(***************************************************************************)
(* Names and the title draw_bottom writes.  A name is a sequence of chars: *)
(* "n" a narrow letter (one column), "w" a wide letter (two columns), "m"  *)
(* a combining mark (no column; it belongs to the character before it).    *)
(***************************************************************************)
NameThreshold == 45

TruncateWidth == 45

Ellipsis == <<".", ".", ".">>

CharWidth(c) == IF c = "w" THEN 2 ELSE IF c = "m" THEN 0 ELSE 1

RECURSIVE Width(_)
Width(s) == IF s = <<>> THEN 0 ELSE CharWidth(Head(s)) + Width(Tail(s))

\* chars().count()
CharCount(s) == Len(s)

\* unicode_truncate(width).0: the longest prefix no wider than width
UnicodeTruncate(s, width) ==
    LET fits == {i \in 0..Len(s) : Width(SubSeq(s, 1, i)) <= width}
        cut == CHOOSE i \in fits : \A j \in fits : j <= i
    IN SubSeq(s, 1, cut)

\* draw_bottom, lines 114-118
TitleText(name) ==
    IF CharCount(name) >= NameThreshold
    THEN UnicodeTruncate(name, TruncateWidth) \o Ellipsis
    ELSE name

Run(c, n) == [i \in 1..n |-> c]

\* the names the truncation is tried on: a run of narrow letters, one marked
\* character, a run of narrow letters
Marked == {<<"n">>, <<"n", "m">>, <<"w">>}

Names ==
    {Run("n", p) \o g \o Run("n", q) :
        p \in (NameThreshold - NameSlack)..(NameThreshold + NameSlack),
        g \in Marked, q \in 0..MaxSuffix}

(***************************************************************************)
(* Responses.                                                              *)
(***************************************************************************)
NoUrl == [base |-> "", key |-> <<>>, lang |-> "", format |-> ""]

NoImage == [src |-> "none", size |-> <<0, 0>>, title |-> <<>>, subtitle |-> ""]

NoResponse ==
    [status |-> 0, ctype |-> "", location |-> NoUrl, text |-> "", image |-> NoImage]

\* get_possible_redirect_url, lines 149-154
RedirectUrl(key, a) ==
    [base |-> "https://nav.tum.de/api/preview/", key |-> key,
     lang |-> LangSerialise(a.lang), format |-> FormatSerialise(a.format)]

\* maps_handler, lines 199-201
PermanentRedirect(url) == [NoResponse EXCEPT !.status = 308, !.location = url]

\* get_localised_data, lines 49-51
NotFound ==
    [NoResponse EXCEPT !.status = 404, !.ctype = "text/plain", !.text = "Not found"]

\* get_localised_data, lines 56-58
InternalServerError ==
    [NoResponse EXCEPT !.status = 500, !.ctype = "text/plain",
                       !.text = "Internal Server Error"]

\* maps_handler, line 217
OkPng(img) == [NoResponse EXCEPT !.status = 200, !.ctype = "image/png", !.image = img]

\* the two canvases with their sizes exchanged
NewCanvasSwapped(format) == IF format = "OpenGraph" THEN <<1200, 1200>> ELSE <<1200, 630>>

\* construct_image_from_data, lines 65-68
NewCanvas(format) == IF format = "OpenGraph" THEN <<1200, 630>> ELSE <<1200, 1200>>

\* the sizes static/logo-card.png may have
DefaultImageSizes == {<<1200, 630>>, <<1200, 1200>>}

(***************************************************************************)
(* State.                                                                  *)
(***************************************************************************)
Requests == {"r1", "r2", "r3"}

VARIABLES
    aliases,          \* the aliases table: a set of rows
    de, en,           \* the localised tables: sets of rows
    defaultImage,     \* the size of static/logo-card.png
    cache,            \* tile store: the tile keys on disk
    inprogress,       \* tile store: per tile key, the fetches in flight
    live,             \* the request slots the server runs
    pc,               \* per slot: where its handler stands
    req,              \* per slot: the request as received
    args,             \* per slot: the parsed QueryArgs
    id,               \* per slot: the normalised identifier
    aliasResult,      \* per slot: how the alias query ended
    recordResult,     \* per slot: how the record query ended
    data,             \* per slot: the Location fetched
    tile,             \* per slot and tile key: none, wait, ok, err
    flightOf,         \* per slot and tile key: the fetch it waits on
    started,          \* per slot: the tile keys it issued a fetch for
    response,         \* per slot: the HttpResponse returned
    outcome,          \* per slot: the terminal state of the pipeline
    trace,            \* per slot: the steps taken, in order
    logged,           \* per slot: what it wrote to the log
    redirectTargets,  \* canonical keys earlier responses redirected to
    name,             \* draw_bottom alone: the name drawn
    title             \* draw_bottom alone: the title text, once drawn

store == <<aliases, de, en, defaultImage>>

tiles == <<cache, inprogress>>

slots == <<pc, req, args, id, aliasResult, recordResult, data, tile, flightOf, started,
           response, outcome, trace, logged>>

pipeline == <<store, tiles, live, slots, redirectTargets>>

vars == <<pipeline, name, title>>

NoTitle == <<"-">>

Ev(op, table, arg) == [op |-> op, table |-> table, arg |-> arg]

Step(op) == Ev(op, "", <<>>)

NoArgs == [lang |-> "", format |-> ""]

NoRequest == [path |-> <<>>, lang |-> "", format |-> ""]

NoTiles == [k \in TileKeys |-> "none"]

NoFlights == [k \in TileKeys |-> "none"]

Tables ==
    {t \in SUBSET AliasRows : Cardinality(t) <= MaxAliasRows}

SlotsInit ==
    /\ pc = [r \in Requests |-> "idle"]
    /\ req = [r \in Requests |-> NoRequest]
    /\ args = [r \in Requests |-> NoArgs]
    /\ id = [r \in Requests |-> <<>>]
    /\ aliasResult = [r \in Requests |-> "none"]
    /\ recordResult = [r \in Requests |-> "none"]
    /\ data = [r \in Requests |-> NoLocation]
    /\ tile = [r \in Requests |-> NoTiles]
    /\ flightOf = [r \in Requests |-> NoFlights]
    /\ started = [r \in Requests |-> {}]
    /\ response = [r \in Requests |-> NoResponse]
    /\ outcome = [r \in Requests |-> "none"]
    /\ trace = [r \in Requests |-> <<>>]
    /\ logged = [r \in Requests |-> {}]
    /\ redirectTargets = {}
    /\ cache = {}
    /\ inprogress = [k \in TileKeys |-> {}]

\* one request at a time, over every small store
Init ==
    /\ aliases \in Tables
    /\ de \in SUBSET {LocationRow(k, "de") : k \in Keys}
    /\ en \in SUBSET {LocationRow(k, "en") : k \in Keys}
    /\ defaultImage \in DefaultImageSizes
    /\ live = {"r1"}
    /\ SlotsInit
    /\ name = <<>>
    /\ title = NoTitle

(***************************************************************************)
(* The alias query and the record query.                                   *)
(***************************************************************************)
\* the alias query without its key <> alias condition
AliasQueryRowsUnfiltered(query) == {row \in aliases : row.alias = query}

\* get_possible_redirect_url, lines 137-147: the rows the query may return
AliasQueryRows(query) ==
    {row \in aliases : row.alias = query /\ row.key # row.alias}

\* fetch_one: a row, RowNotFound, or another error of the data store
AliasQueryResults(query) ==
    {[kind |-> "error", row |-> NoRow]} \cup
    (IF AliasQueryRows(query) = {}
     THEN {[kind |-> "not_found", row |-> NoRow]}
     ELSE {[kind |-> "row", row |-> d] : d \in AliasQueryRows(query)})

\* an alias-query error ending the request
AfterAliasFailClosed(kind) ==
    IF kind = "row" THEN "redirect" ELSE IF kind = "error" THEN "fail" ELSE "lookup"

\* get_possible_redirect_url, lines 148-160, and maps_handler, lines 198-202
AfterAlias(kind) == IF kind = "row" THEN "redirect" ELSE "lookup"

\* get_localised_data, lines 37-45: the table the language selects
SelectedTable(lang) == IF ShouldUseEnglish(lang) THEN "en" ELSE "de"

TableRows(t) == IF t = "en" THEN en ELSE de

\* fetch_all: the rows with the key, or an error of the data store
RecordQueryResults(t, key) ==
    {[kind |-> "error", rows |-> {}],
     [kind |-> "rows", rows |-> {row \in TableRows(t) : row.key = key}]}

(***************************************************************************)
(* The handler, one action per stretch between two suspension points.      *)
(***************************************************************************)
\* the route hands maps_handler a path and the parsed query (lines 188-193)
ReceiveFrom(r, paths, langs, formats) ==
    /\ pc[r] = "idle"
    /\ \E p \in paths, l \in langs, f \in formats :
          /\ req' = [req EXCEPT ![r] = [path |-> p, lang |-> l, format |-> f]]
          /\ args' = [args EXCEPT ![r] =
                         [lang |-> ParseLang(l), format |-> ParseFormat(f)]]
    /\ pc' = [pc EXCEPT ![r] = "start"]
    /\ UNCHANGED <<store, tiles, live, id, aliasResult, recordResult, data, tile,
                   flightOf, started, response, outcome, trace, logged,
                   redirectTargets, name, title>>

\* the client requests the Location of a redirect it was given: the same
\* handler runs again for the canonical key, with the URL's lang and format
FollowRedirect(r) ==
    /\ pc[r] = "done"
    /\ outcome[r] = "Redirected"
    /\ LET url == response[r].location IN
       /\ req' = [req EXCEPT ![r] =
                     [path |-> url.key, lang |-> url.lang, format |-> url.format]]
       /\ args' = [args EXCEPT ![r] =
                      [lang |-> ParseLang(url.lang), format |-> ParseFormat(url.format)]]
       /\ redirectTargets' = redirectTargets \cup {url.key}
    /\ pc' = [pc EXCEPT ![r] = "start"]
    /\ id' = [id EXCEPT ![r] = <<>>]
    /\ aliasResult' = [aliasResult EXCEPT ![r] = "none"]
    /\ response' = [response EXCEPT ![r] = NoResponse]
    /\ outcome' = [outcome EXCEPT ![r] = "none"]
    /\ trace' = [trace EXCEPT ![r] = <<>>]
    /\ logged' = [logged EXCEPT ![r] = {}]
    /\ UNCHANGED <<store, tiles, live, recordResult, data, tile, flightOf, started,
                   name, title>>

Receive(r) == ReceiveFrom(r, Paths, LangTokens, FormatTokens)

\* maps_handler, lines 195-202, with get_possible_redirect_url
ResolveAlias(r) ==
    /\ pc[r] = "start"
    /\ LET query == Normalise(req[r].path) IN
       \E res \in AliasQueryResults(query) :
          LET next == AfterAlias(res.kind) IN
          /\ id' = [id EXCEPT ![r] = query]
          /\ aliasResult' = [aliasResult EXCEPT ![r] = res.kind]
          /\ trace' = [trace EXCEPT ![r] = Append(@, Ev("alias_lookup", "aliases", query))]
          /\ logged' = [logged EXCEPT ![r] =
                           IF res.kind = "error" THEN @ \cup {"alias_error"} ELSE @]
          /\ pc' = [pc EXCEPT ![r] = IF next = "lookup" THEN "lookup" ELSE "done"]
          /\ response' = [response EXCEPT ![r] =
                IF next = "redirect"
                THEN PermanentRedirect(RedirectUrl(res.row.key, args[r]))
                ELSE IF next = "fail" THEN InternalServerError ELSE @]
          /\ outcome' = [outcome EXCEPT ![r] =
                IF next = "redirect" THEN "Redirected"
                ELSE IF next = "fail" THEN "Failed" ELSE @]
    /\ UNCHANGED <<store, tiles, live, req, args, recordResult, data, tile,
                   flightOf, started, redirectTargets, name, title>>

\* an empty result answered as a server error
LocalisedErrorOnEmpty(kind, n) ==
    IF kind = "error" \/ n = 0 THEN InternalServerError ELSE NoResponse

\* get_localised_data, lines 47-60: the error response, if any
LocalisedError(kind, n) ==
    IF kind = "error" THEN InternalServerError
    ELSE IF n = 0 THEN NotFound
    ELSE NoResponse

\* maps_handler, lines 203-209, with get_localised_data and the start of
\* construct_image_from_data (lines 64-71)
GetLocalisedData(r) ==
    /\ pc[r] = "lookup"
    /\ LET t == SelectedTable(args[r].lang) IN
       \E res \in RecordQueryResults(t, id[r]) :
          LET err == LocalisedError(res.kind, Cardinality(res.rows))
              lookup == Ev("record_lookup", t, id[r])
          IN
          /\ logged' = [logged EXCEPT ![r] =
                           IF res.kind = "error" THEN @ \cup {"db_error"} ELSE @]
          /\ recordResult' = [recordResult EXCEPT ![r] =
                IF res.kind = "error" THEN "error"
                ELSE IF res.rows = {} THEN "empty" ELSE "rows"]
          /\ IF err # NoResponse
             THEN /\ response' = [response EXCEPT ![r] = err]
                  /\ outcome' = [outcome EXCEPT ![r] = "Failed"]
                  /\ pc' = [pc EXCEPT ![r] = "done"]
                  /\ trace' = [trace EXCEPT ![r] = Append(@, lookup)]
                  /\ data' = data
             ELSE /\ \E first \in res.rows : data' = [data EXCEPT ![r] = first]
                  /\ pc' = [pc EXCEPT ![r] = "compose"]
                  /\ trace' = [trace EXCEPT ![r] =
                        @ \o <<lookup, Step("new_canvas"), Step("draw_map")>>]
                  /\ UNCHANGED <<response, outcome>>
    /\ UNCHANGED <<store, tiles, live, req, args, id, aliasResult, tile, flightOf,
                   started, redirectTargets, name, title>>

(***************************************************************************)
(* The tile store and the map compositor behind OverlayMapTask::draw_onto. *)
(***************************************************************************)
\* every miss fetching for itself
MustFetchAlways(k) == TRUE

\* a miss starts a fetch only when none for the key is in flight
MustFetch(k) == inprogress[k] = {}

Grid(r) == TileGrid(data[r].coord)

\* the compositor asks the store for one tile of its grid
GetTile(r, k) ==
    /\ pc[r] = "compose"
    /\ k \in Grid(r)
    /\ tile[r][k] = "none"
    /\ \A j \in Grid(r) : tile[r][j] # "err"
    /\ IF k \in cache
       THEN /\ tile' = [tile EXCEPT ![r][k] = "ok"]
            /\ UNCHANGED <<inprogress, started, flightOf>>
       ELSE IF MustFetch(k)
       THEN /\ inprogress' = [inprogress EXCEPT ![k] = @ \cup {r}]
            /\ started' = [started EXCEPT ![r] = @ \cup {k}]
            /\ flightOf' = [flightOf EXCEPT ![r][k] = r]
            /\ tile' = [tile EXCEPT ![r][k] = "wait"]
       ELSE /\ \E f \in inprogress[k] : flightOf' = [flightOf EXCEPT ![r][k] = f]
            /\ tile' = [tile EXCEPT ![r][k] = "wait"]
            /\ UNCHANGED <<inprogress, started>>
    /\ UNCHANGED <<store, cache, live, pc, req, args, id, aliasResult,
                   recordResult, data, response, outcome, trace, logged, redirectTargets, name, title>>

\* the tile provider answers fetch f of key k; the result goes to its waiters
FetchDone(k, f) ==
    /\ f \in inprogress[k]
    /\ \E ok \in BOOLEAN :
          /\ cache' = IF ok THEN cache \cup {k} ELSE cache
          /\ tile' = [r \in Requests |->
                [tile[r] EXCEPT ![k] =
                    IF tile[r][k] = "wait" /\ flightOf[r][k] = f
                    THEN (IF ok THEN "ok" ELSE "err")
                    ELSE @]]
    /\ inprogress' = [inprogress EXCEPT ![k] = @ \ {f}]
    /\ UNCHANGED <<store, live, pc, req, args, id, aliasResult, recordResult,
                   data, flightOf, started, response, outcome, trace, logged, redirectTargets,
                   name, title>>

(***************************************************************************)
(* The end of construct_image_from_data and of maps_handler.               *)
(***************************************************************************)
\* the overlays in the order footer, pin
OverlayStepsFooterFirst == <<Step("draw_bottom"), Step("draw_pin"), Step("encode")>>

\* construct_image_from_data, lines 75-79
OverlaySteps == <<Step("draw_pin"), Step("draw_bottom"), Step("encode")>>

\* construct_image_from_data, lines 63-79: the image drawn
Rendered(loc, format) ==
    [src |-> "canvas", size |-> NewCanvas(format),
     title |-> TitleText(loc.name), subtitle |-> loc.type_common_name]

\* the failed draw answered as a server error
FallbackAsError(size) == InternalServerError

\* load_default_image, lines 127-134, and maps_handler, line 217
Fallback(size) ==
    OkPng([src |-> "default", size |-> size, title |-> <<>>, subtitle |-> ""])

\* draw_onto returned true: lines 74-79 and 209-217
RenderComplete(r) ==
    /\ pc[r] = "compose"
    /\ \A k \in Grid(r) : tile[r][k] = "ok"
    /\ trace' = [trace EXCEPT ![r] = @ \o OverlaySteps]
    /\ response' = [response EXCEPT ![r] = OkPng(Rendered(data[r], args[r].format))]
    /\ outcome' = [outcome EXCEPT ![r] = "Rendered"]
    /\ pc' = [pc EXCEPT ![r] = "done"]
    /\ UNCHANGED <<store, tiles, live, req, args, id, aliasResult, recordResult,
                   data, tile, flightOf, started, logged, redirectTargets, name,
                   title>>

\* draw_onto returned false: lines 71-73 and 209-217
RenderFallback(r) ==
    /\ pc[r] = "compose"
    /\ \E k \in Grid(r) : tile[r][k] = "err"
    /\ trace' = [trace EXCEPT ![r] = Append(@, Step("load_default_image"))]
    /\ logged' = [logged EXCEPT ![r] = @ \cup {"default_image_warning"}]
    /\ response' = [response EXCEPT ![r] = Fallback(defaultImage)]
    /\ outcome' = [outcome EXCEPT ![r] =
          IF response'[r].status = 200 THEN "FallbackImage" ELSE "Failed"]
    /\ pc' = [pc EXCEPT ![r] = "done"]
    /\ UNCHANGED <<store, tiles, live, req, args, id, aliasResult, recordResult,
                   data, tile, flightOf, started, redirectTargets, name, title>>

\* the steps of one handler
Handle(r) ==
    \/ ResolveAlias(r)
    \/ GetLocalisedData(r)
    \/ \E k \in TileKeys : GetTile(r, k)
    \/ RenderComplete(r)
    \/ RenderFallback(r)

Next ==
    \/ \E r \in live : Receive(r)
    \/ \E r \in live : FollowRedirect(r)
    \/ \E r \in live : ResolveAlias(r)
    \/ \E r \in live : GetLocalisedData(r)
    \/ \E r \in live : \E k \in TileKeys : GetTile(r, k)
    \/ \E r \in live : RenderComplete(r)
    \/ \E r \in live : RenderFallback(r)
    \/ \E k \in TileKeys : \E f \in Requests : FetchDone(k, f)

Spec == Init /\ [][Next]_vars

(***************************************************************************)
(* Concurrent requests for known locations, sharing the tile store.        *)
(***************************************************************************)
ConcInit ==
    /\ aliases = {}
    /\ de = {LocationRow(k, "de") : k \in Keys}
    /\ en = {}
    /\ defaultImage \in DefaultImageSizes
    /\ live = Requests
    /\ SlotsInit
    /\ name = <<>>
    /\ title = NoTitle

ReceiveKnown(r) == ReceiveFrom(r, Keys, {"de"}, {"square"})

ConcNext ==
    \/ \E r \in live : ReceiveKnown(r)
    \/ \E r \in live : ResolveAlias(r)
    \/ \E r \in live : GetLocalisedData(r)
    \/ \E r \in live : \E k \in TileKeys : GetTile(r, k)
    \/ \E r \in live : RenderComplete(r)
    \/ \E r \in live : RenderFallback(r)
    \/ \E k \in TileKeys : \E f \in Requests : FetchDone(k, f)

ConcSpec == ConcInit /\ [][ConcNext]_vars

(***************************************************************************)
(* draw_bottom alone, over the names around the threshold.                 *)
(***************************************************************************)
TruncInit ==
    /\ aliases = {}
    /\ de = {}
    /\ en = {}
    /\ defaultImage \in DefaultImageSizes
    /\ live = {}
    /\ SlotsInit
    /\ name \in Names
    /\ title = NoTitle

\* draw_bottom, lines 114-121: the title text handed to OverlayText
DrawBottom ==
    /\ title = NoTitle
    /\ title' = TitleText(name)
    /\ UNCHANGED <<pipeline, name>>

TruncNext == DrawBottom

TruncSpec == TruncInit /\ [][TruncNext]_vars

(***************************************************************************)
(* What the claims are stated over.                                        *)
(***************************************************************************)
Finished(r) == pc[r] = "done"

Ops(r) == [i \in 1..Len(trace[r]) |-> trace[r][i].op]

\* the path with its whitespace and control characters removed
Stripped(path) == SelectSeq(path, LAMBDA c : c \in {"a", "b"})

\* the canonical-key URL for a key, with the tokens the request carried
CanonicalUrl(key, request) ==
    [base |-> "https://nav.tum.de/api/preview/", key |-> key,
     lang |-> request.lang, format |-> request.format]

\* the rows of the aliases table that redirect an identifier
Redirecting(ident) == {row \in aliases : row.alias = ident /\ row.key # row.alias}

RecordLookedUp(r) ==
    \E i \in 1..Len(trace[r]) :
        trace[r][i].op = "record_lookup" /\ trace[r][i].arg = Stripped(req[r].path)

\* C1 as stated: every request for an alias A with a row {A, B}, A # B, ends
\* in a permanent redirect to the canonical-key URL for B with the request's
\* lang and format, and a request with no such row is not redirected and
\* goes on to the record lookup.
C1_AliasRedirectAlways ==
    \A r \in Requests :
        Finished(r) =>
            /\ \A row \in Redirecting(Stripped(req[r].path)) :
                  response[r] = PermanentRedirect(CanonicalUrl(row.key, req[r]))
            /\ Redirecting(Stripped(req[r].path)) = {} =>
                  /\ response[r].status # 308
                  /\ RecordLookedUp(r)

\* C1 amended: a request for an alias A whose alias query did not fail ends
\* in a permanent redirect to the canonical-key URL of a row {A, B}, A # B,
\* with the request's lang and format, whenever such a row exists; a request
\* is redirected in no other case; and a request with no such row goes on to
\* the record lookup.
C1_AliasRedirect ==
    \A r \in Requests :
        Finished(r) =>
            LET rows == Redirecting(Stripped(req[r].path)) IN
            /\ (rows # {} /\ aliasResult[r] # "error") =>
                  \E row \in rows :
                      response[r] = PermanentRedirect(CanonicalUrl(row.key, req[r]))
            /\ response[r].status = 308 =>
                  \E row \in rows :
                      response[r] = PermanentRedirect(CanonicalUrl(row.key, req[r]))
            /\ rows = {} =>
                  /\ response[r].status # 308
                  /\ RecordLookedUp(r)

\* C1 witness: a request whose path needed stripping was redirected, and the
\* table also holds a self-alias row
C1_Witness ==
    \E r \in Requests :
        /\ Finished(r)
        /\ outcome[r] = "Redirected"
        /\ req[r].path # id[r]
        /\ \E row \in aliases : row.alias = row.key

\* the rows of the table the request's language selects, for its identifier
SelectedRows(r) ==
    {row \in (IF req[r].lang = "en" THEN en ELSE de) :
        row.key = Stripped(req[r].path)}

ImageSteps == {"new_canvas", "draw_map", "draw_pin", "draw_bottom", "encode",
               "load_default_image"}

NoImageMade(r) ==
    /\ \A i \in 1..Len(trace[r]) : trace[r][i].op \notin ImageSteps
    /\ response[r].image = NoImage
    /\ response[r].ctype # "image/png"
    /\ tile[r] = NoTiles
    /\ "default_image_warning" \notin logged[r]

\* C2: a request that is not redirected and whose record query finds no row
\* is answered 404 in plain text, one whose record query errors is answered
\* 500 in plain text, and in both cases no map is composed, no default image
\* is loaded and no image/png body is sent.
C2_LookupFailureNoImage ==
    \A r \in Requests :
        (Finished(r) /\ response[r].status # 308) =>
            /\ recordResult[r] = "error" =>
                  /\ response[r].status = 500
                  /\ response[r].ctype = "text/plain"
                  /\ NoImageMade(r)
            /\ (recordResult[r] # "error" /\ SelectedRows(r) = {}) =>
                  /\ response[r].status = 404
                  /\ response[r].ctype = "text/plain"
                  /\ NoImageMade(r)

\* C2 witness: a request for a key the selected table does not hold ended 404
C2_Witness ==
    \E r \in Requests :
        /\ Finished(r)
        /\ recordResult[r] = "empty"
        /\ response[r].status = 404
        /\ \E row \in de \cup en : row.key = id[r]

DrawFailed(r) ==
    /\ Finished(r)
    /\ recordResult[r] = "rows"
    /\ \E k \in Grid(r) : tile[r][k] = "err"

\* the default image as a response body: the same for every request
DefaultBody ==
    [src |-> "default", size |-> defaultImage, title |-> <<>>, subtitle |-> ""]

\* C3: when the record was found and the map draw failed, the response is
\* 200 image/png with the fixed default image as its body, and a warning is
\* logged.
C3_FallbackIsSuccess ==
    \A r \in Requests :
        DrawFailed(r) =>
            /\ response[r].status = 200
            /\ response[r].ctype = "image/png"
            /\ response[r].image = DefaultBody
            /\ "default_image_warning" \in logged[r]

\* C3 witness: a found record whose tile fetch failed
C3_Witness ==
    \E r \in Requests : DrawFailed(r) /\ outcome[r] = "FallbackImage"

\* the size the format asks for
FormatSize(tok) == IF tok = "open_graph" THEN <<1200, 630>> ELSE <<1200, 1200>>

\* C5 as stated: every image/png response has the size of its format,
\* whichever path produced the body.
C5_CanvasSizeAnyPath ==
    \A r \in Requests :
        (Finished(r) /\ response[r].ctype = "image/png") =>
            response[r].image.size = FormatSize(req[r].format)

\* C5 amended: every image/png response drawn from the canvas has the size
\* of its format; the default-image fallback has the size of the default
\* image, whatever the format.
C5_CanvasSize ==
    \A r \in Requests :
        (Finished(r) /\ response[r].ctype = "image/png") =>
            /\ response[r].image.src \in {"canvas", "default"}
            /\ response[r].image.src = "canvas" =>
                  response[r].image.size = FormatSize(req[r].format)
            /\ response[r].image.src = "default" =>
                  response[r].image.size = defaultImage

\* C5 witness: a square request answered with a rendered canvas
C5_Witness ==
    \E r \in Requests :
        /\ Finished(r)
        /\ req[r].format = "square"
        /\ response[r].image.src = "canvas"

Lookups(r) ==
    {i \in 1..Len(trace[r]) : trace[r][i].op \in {"alias_lookup", "record_lookup"}}

\* C7: every lookup of a request is issued with the path identifier stripped
\* of its whitespace and control characters, so all lookups of one request
\* use the same value.
C7_NormalisedLookups ==
    \A r \in Requests :
        /\ \A i \in Lookups(r) :
              /\ trace[r][i].arg = Stripped(req[r].path)
              /\ \A j \in 1..Len(trace[r][i].arg) :
                    trace[r][i].arg[j] \notin {"sp", "tab", "nul"}
        /\ pc[r] \notin {"idle", "start"} => id[r] = Stripped(req[r].path)

\* C7 witness: both lookups were issued for a path that held a control
\* character
C7_Witness ==
    \E r \in Requests :
        /\ Cardinality(Lookups(r)) = 2
        /\ \E j \in 1..Len(req[r].path) : req[r].path[j] = "nul"
        /\ id[r] # <<>>

\* C8: after an alias query that failed with a data-store error the request
\* is not redirected and not answered yet, the error is logged, and the next
\* step is the record lookup for the same identifier.
C8_AliasFailsOpen ==
    \A r \in Requests :
        aliasResult[r] = "error" =>
            /\ "alias_error" \in logged[r]
            /\ response[r].status # 308
            /\ pc[r] = "lookup" => response[r] = NoResponse /\ outcome[r] = "none"
            /\ pc[r] # "lookup" =>
                  /\ Len(trace[r]) >= 2
                  /\ trace[r][2].op = "record_lookup"
                  /\ trace[r][2].arg = trace[r][1].arg
                  /\ recordResult[r] # "none"

\* C8 witness: a request whose alias query failed was answered with the
\* rendered image, although the table holds a redirecting row for it
C8_Witness ==
    \E r \in Requests :
        /\ aliasResult[r] = "error"
        /\ outcome[r] = "Rendered"
        /\ Redirecting(id[r]) # {}

AliasLookups(r) == {i \in 1..Len(trace[r]) : trace[r][i].op = "alias_lookup"}

\* the table holds direct mappings only: no canonical key of a redirecting
\* row is itself redirected
DirectOnly ==
    \A x \in aliases, y \in aliases :
        (x.key # x.alias /\ y.key # y.alias) => x.key # y.alias

\* C9 as stated: a request for a key that an earlier response redirected to
\* is never redirected again, whatever the aliases table holds.
C9_CanonicalNeverRedirects ==
    \A r \in Requests :
        (Finished(r) /\ id[r] \in redirectTargets) => outcome[r] # "Redirected"

\* C9 amended: when the aliases table holds direct mappings only, a request
\* for a key that an earlier response redirected to is not redirected again;
\* whatever the table holds, the resolver issues exactly one alias lookup
\* per request.
C9_OneHop ==
    \A r \in Requests :
        /\ (DirectOnly /\ Finished(r) /\ id[r] \in redirectTargets) =>
              outcome[r] # "Redirected"
        /\ Cardinality(AliasLookups(r)) = (IF pc[r] \in {"idle", "start"} THEN 0 ELSE 1)

\* C9 witness: the request for the canonical key of a followed redirect was
\* answered with the rendered image, its alias query having succeeded
C9_Witness ==
    \E r \in Requests :
        /\ Finished(r)
        /\ id[r] \in redirectTargets
        /\ aliasResult[r] = "not_found"
        /\ outcome[r] = "Rendered"

Outcomes == {"Redirected", "Failed", "FallbackImage", "Rendered"}

Untouched(r) ==
    /\ tile[r] = NoTiles
    /\ started[r] = {}
    /\ data[r] = NoLocation

\* the steps a pipeline may have taken, by where it stands
StepsAt(r) ==
    IF pc[r] \in {"idle", "start"} THEN <<>>
    ELSE IF pc[r] = "lookup" THEN <<"alias_lookup">>
    ELSE IF pc[r] = "compose"
        THEN <<"alias_lookup", "record_lookup", "new_canvas", "draw_map">>
    ELSE IF outcome[r] = "Redirected" THEN <<"alias_lookup">>
    ELSE IF outcome[r] = "Failed" THEN <<"alias_lookup", "record_lookup">>
    ELSE IF outcome[r] = "FallbackImage"
        THEN <<"alias_lookup", "record_lookup", "new_canvas", "draw_map",
               "load_default_image">>
    ELSE <<"alias_lookup", "record_lookup", "new_canvas", "draw_map",
           "draw_pin", "draw_bottom", "encode">>

\* a handler under way can take a step, or waits for a fetch in flight
CanProceed(r) ==
    \/ ENABLED Handle(r)
    \/ \E k \in Grid(r) :
          /\ tile[r][k] = "wait"
          /\ ENABLED FetchDone(k, flightOf[r][k])

\* C10: a pipeline that has ended has exactly one of the four outcomes, one
\* that has not ended has none and can go on; the steps are taken in the
\* order alias lookup, record lookup, map draw, pin, footer, encode; a
\* redirected or failed request fetched no record respectively no tile; and
\* the overlays and the encode follow a map draw whose every tile arrived.
C10_Orchestrator ==
    \A r \in Requests :
        /\ Finished(r) <=> outcome[r] \in Outcomes
        /\ ~Finished(r) => outcome[r] = "none"
        /\ pc[r] \notin {"idle", "done"} => CanProceed(r)
        /\ Ops(r) = StepsAt(r)
        /\ outcome[r] = "Redirected" => Untouched(r) /\ recordResult[r] = "none"
        /\ outcome[r] = "Failed" => tile[r] = NoTiles /\ started[r] = {}
        /\ outcome[r] = "Rendered" => \A k \in Grid(r) : tile[r][k] = "ok"
        /\ outcome[r] = "FallbackImage" => \E k \in Grid(r) : tile[r][k] = "err"

\* C10 witness: a pipeline ended Rendered after fetching two tiles
C10_Witness ==
    \E r \in Requests :
        /\ outcome[r] = "Rendered"
        /\ started[r] = {"t1", "t2"}

Waiting(k) == {r \in Requests : tile[r][k] = "wait"}

Served(k) == {r \in Requests : tile[r][k] \in {"ok", "err"} /\ flightOf[r][k] # "none"}

\* C4: at no time are two fetches of one tile key in flight; the requests
\* waiting for a key all wait on the one fetch in flight, which exactly one
\* of them issued; no fetch is in flight for a key on disk; and the requests
\* served by one fetch received the same result.
C4_SingleFlight ==
    \A k \in TileKeys :
        /\ Cardinality(inprogress[k]) <= 1
        /\ k \in cache => inprogress[k] = {}
        /\ Waiting(k) # {} =>
              /\ \E f \in inprogress[k] : \A r \in Waiting(k) : flightOf[r][k] = f
              /\ Cardinality({r \in Waiting(k) : k \in started[r]}) = 1
        /\ \A r1 \in Served(k), r2 \in Served(k) :
              flightOf[r1][k] = flightOf[r2][k] => tile[r1][k] = tile[r2][k]

\* C4 witness: three requests were served the same tile by one fetch, which
\* one of them issued
C4_Witness ==
    \E k \in TileKeys :
        /\ Cardinality({r \in Served(k) : flightOf[r][k] = "r1" /\ tile[r][k] = "ok"}) = 3
        /\ Cardinality({r \in Requests : k \in started[r]}) = 1

\* the human-perceived characters of a name: every char but the marks
Graphemes(s) == Len(SelectSeq(s, LAMBDA c : c # "m"))

\* the longest prefix of a name that holds at most n characters, marks
\* staying with the character they follow
FirstCharacters(s, n) ==
    LET fits == {i \in 0..Len(s) : Graphemes(SubSeq(s, 1, i)) <= n}
        cut == CHOOSE i \in fits : \A j \in fits : j <= i
    IN SubSeq(s, 1, cut)

\* C6: the title of a name of exactly 45 characters is the name, and the
\* title of a name of 46 or more characters is its first 45 characters, cut
\* between two characters, followed by an ellipsis.
C6_TruncationLaw ==
    title # NoTitle =>
        /\ Graphemes(name) = 45 => title = name
        /\ Graphemes(name) >= 46 => title = FirstCharacters(name, 45) \o Ellipsis

====
